---- MODULE Spec2Model ----
(***************************************************************************)
(* State-machine model of MaxText/page_managers.py (class PageManager).   *)
(*                                                                         *)
(* Reading conventions.  The flax plumbing of the file (Variable objects   *)
(* used where their .value is meant, the (max_num_sequences, 1) shapes,    *)
(* the tuple returned by jnp.where on line 134, lax.cond used as an        *)
(* element-wise select on line 127) is read as the array operation each    *)
(* statement denotes.  The values the statements compute are kept as       *)
(* written:                                                                *)
(*   - x.at[i].set(v) builds a NEW array; on lines 101, 122 and 139 the    *)
(*     result is dropped, so page_indices is left as it was;               *)
(*   - jnp.where(page_indices[1:] == 0, size=1)[0] is an index into the    *)
(*     slice [1:], i.e. the page number minus one, and is 0 (the fill      *)
(*     value) when nothing matches;                                        *)
(*   - an out-of-bounds .at[...].set(...) is dropped, a negative index     *)
(*     wraps, an out-of-bounds read is clamped.                            *)
(* An AssertionError leaves every assignment made before it in place; the  *)
(* variable `raised` records it and the manager can be called again.       *)
(***************************************************************************)
EXTENDS Integers, Sequences, FiniteSets, TLC

\* ---- configuration fields of PageManager (lines 32-35) ----
max_num_sequences == 2
max_target_length == 4
page_size == 2
num_pages == 3

\* assign_decode_step_pages has no upper limit on seq_lengths; the model
\* stops decoding once some slot holds MaxSeqLength tokens.
MaxSeqLength == 6

max_pages_per_sequence == max_target_length \div page_size

Slots == 0 .. (max_num_sequences - 1)
Pages == 0 .. (num_pages - 1)
Cols == 0 .. (max_pages_per_sequence - 1)

\* page_indices .. seq_page_indices are the "cache" variables of the module.
\* call, raised, allocated, writes and before observe the last call: its
\* name and arguments, whether its assert fired, the page_idx values it
\* computed, the storage cells it wrote (slot, page row, offset in the row,
\* token position), and the free-page count and target slot's length it
\* started from.
VARIABLES page_indices, seq_lengths, seq_pages, seq_page_cursor,
          seq_page_indices, call, raised, allocated, writes, before

vars == <<page_indices, seq_lengths, seq_pages, seq_page_cursor,
          seq_page_indices, call, raised, allocated, writes, before>>

\* ---- array helpers ----

\* jnp.ceil(a / b).astype(jnp.int32) for a >= 0, b > 0
CeilDiv(a, b) == (a + b - 1) \div b

Min(a, b) == IF a < b THEN a ELSE b

\* `arr.at[idx].set(v)` as a statement: the updated copy is not assigned.
DiscardedAtSet(arr, idx, v) == arr

\* `arr = arr.at[slot, i].set(v)`: negative i wraps, out-of-bounds is dropped.
AtSet2(arr, slot, i, v) ==
  LET j == IF i < 0 THEN i + max_pages_per_sequence ELSE i
  IN IF slot \in Slots /\ j \in Cols
       THEN [arr EXCEPT ![slot][j] = v]
       ELSE arr

\* arr[slot][i] read with clamping
ReadClamped(arr, slot, i) ==
  arr[slot][IF i > max_pages_per_sequence - 1 THEN max_pages_per_sequence - 1 ELSE i]

\* jnp.count_nonzero(page_indices[1:]) == num_pages - 1   (the assert's negation)
AllPagesInUse(pi) ==
  Cardinality({p \in 1 .. (num_pages - 1) : pi[p] # 0}) = num_pages - 1

\* jnp.where(page_indices[1:] == 0, size=1)[0]: first matching position of the
\* slice, fill value 0 when there is none.
WhereFirstFree(pi) ==
  LET hits == {k \in 0 .. (num_pages - 2) : pi[k + 1] = 0}
  IN IF hits = {} THEN 0 ELSE CHOOSE k \in hits : \A m \in hits : k <= m

UsablePages == 1 .. (num_pages - 1)

FreeUsable(pi) == {p \in UsablePages : pi[p] = 0}

\* what a call starts from: the free usable pages and the target slot's
\* length, whether the call before it was a prefill of the same slot that
\* completed and found the slot inactive, and the free usable pages that
\* earlier call started from; clean tells that no assert had fired before
\* the call
Snapshot(slot) == [free |-> Cardinality(FreeUsable(page_indices)),
                   length |-> seq_lengths[slot],
                   clean |-> before.clean /\ ~raised,
                   after_prefill |-> /\ call.name = "prefill"
                                     /\ call.slot = slot
                                     /\ ~raised
                                     /\ before.length = 0,
                   prev_free |-> before.free]

\* ---- setup ----
\* Line 44 hands flax the array jnp.arange(num_pages) where an initializer
\* function is expected, so the declaration cannot create the variable: taken
\* as the initial value it gives ArangePool, and a "cache" collection passed
\* in by the caller (flax then skips the initializer) gives the pool the
\* caller built, of which the model admits the one with every flag clear.
\* The four slot arrays are declared with jnp.zeros.
ArangePool == [p \in Pages |-> p]
ZeroPool == [p \in Pages |-> 0]

NoCall == [name |-> "setup", slot |-> 0, true_length |-> 0]

Init ==
  /\ page_indices \in {ArangePool, ZeroPool}
  /\ seq_lengths = [s \in Slots |-> 0]
  /\ seq_pages = [s \in Slots |-> 0]
  /\ seq_page_cursor = [s \in Slots |-> 0]
  /\ seq_page_indices = [s \in Slots |-> [i \in Cols |-> 0]]
  /\ call = NoCall
  /\ raised = FALSE
  /\ allocated = <<>>
  /\ writes = {}
  /\ before = [free |-> Cardinality(FreeUsable(page_indices)), length |-> 0,
               clean |-> TRUE,
               after_prefill |-> FALSE,
               prev_free |-> Cardinality(FreeUsable(page_indices))]

\* ---- release_slot ----
RECURSIVE ReleaseLoopMarksInUse(_, _, _, _)
ReleaseLoopMarksInUse(i, n, slot, pi) ==
  IF i >= n THEN pi
  ELSE LET page_idx == ReadClamped(seq_page_indices, slot, i)
       IN ReleaseLoopMarksInUse(i + 1, n, slot, [pi EXCEPT ![page_idx] = 1])

RECURSIVE ReleaseLoop(_, _, _, _)
ReleaseLoop(i, n, slot, pi) ==
  IF i >= n THEN pi
  ELSE LET page_idx == ReadClamped(seq_page_indices, slot, i)
       IN ReleaseLoop(i + 1, n, slot, DiscardedAtSet(pi, page_idx, 0))

release_slot_every_length(slot) ==
  /\ page_indices' = ReleaseLoop(0, seq_pages[slot], slot, page_indices)
  /\ seq_lengths' = [s \in Slots |-> 0]
  /\ seq_pages' = [seq_pages EXCEPT ![slot] = 0]
  /\ seq_page_cursor' = [seq_page_cursor EXCEPT ![slot] = 0]
  /\ seq_page_indices' = [seq_page_indices EXCEPT ![slot] = [i \in Cols |-> 0]]
  /\ call' = [name |-> "release", slot |-> slot, true_length |-> 0]
  /\ raised' = FALSE
  /\ allocated' = <<>>
  /\ writes' = {}
  /\ before' = Snapshot(slot)

release_slot(slot) ==
  /\ page_indices' = ReleaseLoop(0, seq_pages[slot], slot, page_indices)
  /\ seq_lengths' = [seq_lengths EXCEPT ![slot] = 0]
  /\ seq_pages' = [seq_pages EXCEPT ![slot] = 0]
  /\ seq_page_cursor' = [seq_page_cursor EXCEPT ![slot] = 0]
  /\ seq_page_indices' = [seq_page_indices EXCEPT ![slot] = [i \in Cols |-> 0]]
  /\ call' = [name |-> "release", slot |-> slot, true_length |-> 0]
  /\ raised' = FALSE
  /\ allocated' = <<>>
  /\ writes' = {}
  /\ before' = Snapshot(slot)

\* ---- assign_prefill_step_pages ----
PrefillSeqPages(true_length) == CeilDiv(true_length, page_size)

PrefillSeqPageCursor(true_length) == (true_length - 1) % page_size

RECURSIVE PrefillLoopMarksPage(_, _, _, _, _, _)
PrefillLoopMarksPage(i, n, slot, pi, spi, log) ==
  IF i >= n THEN [pi |-> pi, spi |-> spi, log |-> log, raised |-> FALSE]
  ELSE IF AllPagesInUse(pi)
    THEN [pi |-> pi, spi |-> spi, log |-> log, raised |-> TRUE]
    ELSE LET page_idx == WhereFirstFree(pi) + 1
         IN PrefillLoopMarksPage(i + 1, n, slot,
                                 [pi EXCEPT ![page_idx] = 1],
                                 AtSet2(spi, slot, i, page_idx),
                                 Append(log, page_idx))

RECURSIVE PrefillLoop(_, _, _, _, _, _)
PrefillLoop(i, n, slot, pi, spi, log) ==
  IF i >= n THEN [pi |-> pi, spi |-> spi, log |-> log, raised |-> FALSE]
  ELSE IF AllPagesInUse(pi)
    THEN [pi |-> pi, spi |-> spi, log |-> log, raised |-> TRUE]
    ELSE LET page_idx == WhereFirstFree(pi)
         IN PrefillLoop(i + 1, n, slot,
                        DiscardedAtSet(pi, page_idx, 1),
                        AtSet2(spi, slot, i, page_idx),
                        Append(log, page_idx))

assign_prefill_step_pages(slot, true_length) ==
  LET n == PrefillSeqPages(true_length)
      r == PrefillLoop(0, n, slot, page_indices, seq_page_indices, <<>>)
  IN /\ seq_lengths' = [seq_lengths EXCEPT ![slot] = true_length]
     /\ seq_pages' = [seq_pages EXCEPT ![slot] = n]
     /\ seq_page_cursor' = [seq_page_cursor EXCEPT ![slot] = PrefillSeqPageCursor(true_length)]
     /\ page_indices' = r.pi
     /\ seq_page_indices' = r.spi
     /\ allocated' = r.log
     /\ raised' = r.raised
     /\ call' = [name |-> "prefill", slot |-> slot, true_length |-> true_length]
     /\ writes' = {}
     /\ before' = Snapshot(slot)

\* ---- assign_decode_step_pages ----
DecodeSeqLengthsEverySlot(lens) == [s \in Slots |-> lens[s] + 1]

DecodeSeqLengths(lens) == [s \in Slots |-> lens[s] + (IF lens[s] > 0 THEN 1 ELSE 0)]

DecodeSeqPages(lens) == [s \in Slots |-> CeilDiv(lens[s], page_size)]

DecodeSeqPageCursorNoShift(lens) == [s \in Slots |-> lens[s] % page_size]

DecodeSeqPageCursor(lens) == [s \in Slots |-> (lens[s] - 1) % page_size]

\* jnp.where(seq_new_pages > 0, size=max_num_sequences): matching slots in
\* ascending order, padded with 0.
UpdatingSlots(seq_new_pages) ==
  LET hits == {s \in Slots : seq_new_pages[s] > 0}
  IN [k \in Slots |->
        IF k < Cardinality(hits)
          THEN CHOOSE s \in hits : Cardinality({t \in hits : t < s}) = k
          ELSE 0]

RECURSIVE DecodeLoop(_, _, _, _, _, _, _)
DecodeLoop(i, n, updating_slots, pages, pi, spi, log) ==
  IF i >= n THEN [pi |-> pi, spi |-> spi, log |-> log, raised |-> FALSE]
  ELSE IF AllPagesInUse(pi)
    THEN [pi |-> pi, spi |-> spi, log |-> log, raised |-> TRUE]
    ELSE LET slot == updating_slots[i]
             page_idx == WhereFirstFree(pi)
         IN DecodeLoop(i + 1, n, updating_slots, pages,
                       DiscardedAtSet(pi, page_idx, 1),
                       AtSet2(spi, slot, pages[slot] - 1, page_idx),
                       Append(log, page_idx))

assign_decode_step_pages ==
  LET lens == DecodeSeqLengths(seq_lengths)
      current_seq_pages == seq_pages
      pages == DecodeSeqPages(lens)
      seq_new_pages == [s \in Slots |-> pages[s] - current_seq_pages[s]]
      new_pages == Cardinality({s \in Slots : seq_new_pages[s] # 0})
      r == DecodeLoop(0, new_pages, UpdatingSlots(seq_new_pages), pages,
                      page_indices, seq_page_indices, <<>>)
  IN /\ \A s \in Slots : seq_lengths[s] < MaxSeqLength
     /\ seq_lengths' = lens
     /\ seq_pages' = pages
     /\ seq_page_cursor' = DecodeSeqPageCursor(lens)
     /\ page_indices' = r.pi
     /\ seq_page_indices' = r.spi
     /\ allocated' = r.log
     /\ raised' = r.raised
     /\ call' = [name |-> "decode", slot |-> 0, true_length |-> 0]
     /\ writes' = {}
     /\ before' = Snapshot(0)

\* ---- update_prefill_step_pages ----
\* jax.lax.dynamic_slice_in_dim(key, start, page_size, axis=2) on an axis of
\* key_length positions: a negative start wraps once, then the start is
\* clamped so that the slice stays inside the axis.
DynamicSliceStart(start, key_length) ==
  LET wrapped == IF start < 0 THEN start + key_length ELSE start
  IN IF wrapped < 0 THEN 0
     ELSE IF wrapped > key_length - page_size THEN key_length - page_size
     ELSE wrapped

PrefillBlockStart(i, key_length) == DynamicSliceStart((i - 1) * page_size, key_length)

\* the cells written by the loop of lines 149-154
PrefillWrites(slot, key_length) ==
  {[slot |-> slot,
    page |-> ReadClamped(seq_page_indices, slot, i),
    offset |-> o,
    token |-> PrefillBlockStart(i, key_length) + o] :
     <<i, o>> \in (0 .. (seq_pages[slot] - 1)) \X (0 .. (page_size - 1))}

update_prefill_step_pages(slot, key_length) ==
  /\ key_length >= seq_lengths[slot]
  /\ writes' = PrefillWrites(slot, key_length)
  /\ call' = [name |-> "update_prefill", slot |-> slot, true_length |-> key_length]
  /\ raised' = FALSE
  /\ allocated' = <<>>
  /\ before' = Snapshot(slot)
  /\ UNCHANGED <<page_indices, seq_lengths, seq_pages, seq_page_cursor, seq_page_indices>>

\* ---- update_decode_step_pages ----
\* assigned_page_idx = self.seq_pages - 1, used as the page axis index of
\* key_pages: -1 wraps to the last page, an index past the axis is dropped.
DecodeAssignedPageIdx(s) ==
  IF seq_pages[s] - 1 < 0 THEN seq_pages[s] - 1 + num_pages ELSE seq_pages[s] - 1

DecodeWrites ==
  {[slot |-> s,
    page |-> DecodeAssignedPageIdx(s),
    offset |-> seq_page_cursor[s],
    token |-> seq_lengths[s] - 1] :
     s \in {t \in Slots : DecodeAssignedPageIdx(t) \in Pages}}

update_decode_step_pages ==
  /\ writes' = DecodeWrites
  /\ call' = [name |-> "update_decode", slot |-> 0, true_length |-> 0]
  /\ raised' = FALSE
  /\ allocated' = <<>>
  /\ before' = Snapshot(0)
  /\ UNCHANGED <<page_indices, seq_lengths, seq_pages, seq_page_cursor, seq_page_indices>>

\* ---- the generation loop: any call, in any order ----
Prefill == \E slot \in Slots : \E true_length \in 1 .. max_target_length :
             assign_prefill_step_pages(slot, true_length)

Decode == assign_decode_step_pages

Release == \E slot \in Slots : release_slot(slot)

UpdatePrefill == \E slot \in Slots : \E key_length \in page_size .. max_target_length :
                   update_prefill_step_pages(slot, key_length)

UpdateDecode == update_decode_step_pages

Next == Prefill \/ Decode \/ Release \/ UpdatePrefill \/ UpdateDecode

Spec == Init /\ [][Next]_vars

TypeOK ==
  /\ page_indices \in [Pages -> Pages]
  /\ seq_lengths \in [Slots -> 0 .. MaxSeqLength]
  /\ seq_pages \in [Slots -> 0 .. CeilDiv(MaxSeqLength, page_size)]
  /\ seq_page_cursor \in [Slots -> 0 .. (page_size - 1)]
  /\ seq_page_indices \in [Slots -> [Cols -> Pages]]
  /\ raised \in BOOLEAN

\* ======================= properties =======================

\* number of entries of a slot's row that seq_pages declares owned
OwnedCount(s) == Min(seq_pages[s], max_pages_per_sequence)

OwnedPositions == {<<s, i>> \in Slots \X Cols : i < OwnedCount(s)}

OwnedPages == {seq_page_indices[e[1]][e[2]] : e \in OwnedPositions}

FlaggedInUse(pi) == {p \in Pages : pi[p] # 0}

RECURSIVE SumUpTo(_, _)
SumUpTo(f, k) == IF k < 0 THEN 0 ELSE f[k] + SumUpTo(f, k - 1)

SumSeqPages == SumUpTo(seq_pages, max_num_sequences - 1)

\* C1: no page id occurs at two different owned positions, whether in the
\* rows of two different slots or twice in the row of one slot.
C1_NoPageAliasing ==
  \A e \in OwnedPositions : \A f \in OwnedPositions :
    e # f => seq_page_indices[e[1]][e[2]] # seq_page_indices[f[1]][f[2]]

\* C2: after every operation the pages flagged in-use in page_indices are
\* exactly the pages found at the owned positions of the slots.
C2_InUseEqualsOwned ==
  call.name # "setup" => FlaggedInUse(page_indices) = OwnedPages

\* C3: after every operation every slot with seq_length > 0 has
\* seq_pages = ceil(seq_length / page_size) and
\* seq_page_cursor = (seq_length - 1) mod page_size.
C3_PagesAndCursorFollowLength ==
  call.name # "setup" =>
    \A s \in Slots : seq_lengths[s] > 0 =>
      /\ seq_pages[s] * page_size >= seq_lengths[s]
      /\ (seq_pages[s] - 1) * page_size < seq_lengths[s]
      /\ seq_page_cursor[s] \in 0 .. (page_size - 1)
      /\ \E q \in 0 .. MaxSeqLength :
           seq_lengths[s] - 1 = q * page_size + seq_page_cursor[s]

\* C3 witness: a decode step has just carried a slot over a page boundary,
\* so the slot counts two pages and its cursor is back at offset 0.
C3_Witness ==
  /\ call.name = "decode"
  /\ \E s \in Slots : seq_lengths[s] = page_size + 1 /\ seq_pages[s] = 2
                      /\ seq_page_cursor[s] = 0

\* C4: the slots together never count more pages than the usable ones.
C4_SumSeqPagesWithinPool == SumSeqPages <= num_pages - 1

C7_PrefillFailsAtomically ==
  [][ ( /\ call'.name = "prefill"
        /\ PrefillSeqPages(call'.true_length) > Cardinality(FreeUsable(page_indices)) )
      => /\ raised'
         /\ seq_pages'[call'.slot] = 0
         /\ page_indices' = page_indices
    ]_vars

C9_DecodeAdvancesActiveSlots ==
  [][ call'.name = "decode" =>
        \A s \in Slots :
          IF seq_lengths[s] > 0
            THEN seq_lengths'[s] = seq_lengths[s] + 1
            ELSE seq_lengths'[s] = 0 /\ seq_pages'[s] = 0
    ]_vars

\* C9 witness: after a decode call one slot is active past its first token
\* and another slot is still inactive.
C9_Witness ==
  /\ call.name = "decode"
  /\ \E s \in Slots : \E t \in Slots :
       seq_lengths[s] >= 2 /\ seq_lengths[t] = 0 /\ seq_pages[t] = 0

NoAssertSoFar == before.clean /\ ~raised

CacheUnchanged ==
  UNCHANGED <<page_indices, seq_lengths, seq_pages, seq_page_cursor, seq_page_indices>>

C12_ReleaseIdempotent ==
  [][ ( /\ call'.name = "release"
        /\ \/ call.name = "release" /\ call.slot = call'.slot
           \/ seq_lengths[call'.slot] = 0 )
      => CacheUnchanged
    ]_vars

C14_AllocationSucceedsWhilePagesRemain ==
  [][ ( /\ call'.name = "prefill"
        /\ PrefillSeqPages(call'.true_length) = 1
        /\ SumSeqPages < num_pages - 1 )
      => ~raised'
    ]_vars

C17_DecodeFailsAsAWhole ==
  [][ (call'.name = "decode" /\ raised') =>
        /\ seq_lengths' = seq_lengths
        /\ seq_pages' = seq_pages
        /\ seq_page_cursor' = seq_page_cursor
    ]_vars

\* C18: prefill and release change only the target slot: every other
\* slot's length, page count, cursor and page row are unchanged, and so is
\* the in-use flag of every page another slot owns.
C18_OnlyTargetSlotChanges ==
  [][ call'.name \in {"prefill", "release"} =>
        \A t \in Slots : t # call'.slot =>
          /\ seq_lengths'[t] = seq_lengths[t]
          /\ seq_pages'[t] = seq_pages[t]
          /\ seq_page_cursor'[t] = seq_page_cursor[t]
          /\ seq_page_indices'[t] = seq_page_indices[t]
          /\ \A i \in Cols : i < OwnedCount(t) =>
               page_indices'[seq_page_indices[t][i]] = page_indices[seq_page_indices[t][i]]
    ]_vars

\* C18 witness: release_slot has just emptied a slot that held tokens while
\* another slot is active and counts pages.
C18_Witness ==
  /\ call.name = "release"
  /\ before.length > 0
  /\ \E t \in Slots : t # call.slot /\ seq_lengths[t] > 0 /\ seq_pages[t] > 0

C20_FreshPoolServesFirstPrefill ==
  [][ ( /\ call.name = "setup"
        /\ call'.name = "prefill"
        /\ PrefillSeqPages(call'.true_length) <= num_pages - 1 )
      => /\ \A s \in Slots :
              /\ seq_lengths[s] = 0 /\ seq_pages[s] = 0 /\ seq_page_cursor[s] = 0
              /\ \A i \in Cols : seq_page_indices[s][i] = 0
         /\ \A p \in UsablePages : page_indices[p] = 0
         /\ ~raised'
    ]_vars

====
